---- MODULE Spec2Model ----
(***************************************************************************)
(* Model of packages/trpc/router/items.ts: the getUnreadItems procedure    *)
(* (seven views over one Prisma query shape, cursor pagination, the        *)
(* subscription-window filter, the recently-read re-sort and duplicate     *)
(* suppression), two invocations of it running at once, the two search     *)
(* procedures, and the relational rows they read.                          *)
(*                                                                         *)
(* Optional values (cursor, feed_id, folder, a user_item row, a            *)
(* subscription row, marked_read_time) are sequences of length 0 or 1:     *)
(* <<>> is undefined/null/no row, <<v>> is the value v.                    *)
(***************************************************************************)
EXTENDS Integers, Sequences, FiniteSets, TLC

\* ------------------------------------------------------------------ bounds
MaxItems == 3
MaxAmount == 2

\* thirtyDaysAgo.setDate(thirtyDaysAgo.getDate() - 30)
ThirtyDays == 30

Users == {"u1", "u2"}
Feeds == {"f1", "f2"}
Folders == {"d1"}
ItemIds == 1..MaxItems
\* The page sizes asked for: the largest and the one below it.
Amounts == (MaxAmount - 1)..MaxAmount

\* Following nextCursor over n items takes at most n + 1 requests when every
\* cursor moves forward; a pagination is cut off after that many.
MaxPages == MaxItems + 1

\* new Date() of a request, in days. The timestamps the rows carry lie around
\* the 30-day boundary: the day before it, the boundary day, the day after.
Now == ThirtyDays + 1

Sorts ==
  {"Latest", "Oldest", "Readability Ascending", "Readability Descending",
   "Content Length Ascending", "Content Length Descending"}

Types ==
  {"all", "one", "recentlyread", "bookmarks", "multiple", "discover", "newsletters"}

VARIABLES
  item,        \* Item rows: [existing ids -> [feed_id, created_at, from_newsletter]]
  user_item,   \* UserItemState: [Users \X ItemIds -> <<>> or <<row>>]
  feed_users,  \* UserFeedSubscription: [Users \X Feeds -> <<>> or <<pagination_start_timestamp>>]
  folder,      \* feed-grouping folders: [Users \X Folders -> <<>> or <<set of feed ids>>]
  req,         \* the last request: <<>> or <<[user, input]>>
  resp,        \* the last response
  session,     \* what a client has collected by following nextCursor
  written,     \* the store was written to since the first page was asked for
  changed,     \* the store was written to since resp was produced
  title,       \* Item.title: [ItemIds -> text]
  website_content, \* Item.website_content: [ItemIds -> <<>> (null) or <<text>>]
  search,      \* the last search: <<>> or <<[procedure, user, input, dbOrder, result]>>
  pc,          \* where each concurrent invocation of getUnreadItems stands
  frame        \* the locals of each invocation: ctx.user, input, sharedQuery, items

\* The variables of the two search procedures.
searchVars == <<title, website_content, search>>

\* The variables of the concurrent invocations.
handlerVars == <<pc, frame>>

vars == <<item, user_item, feed_users, folder, req, resp, session, written, changed,
          searchVars, handlerVars>>

\* ------------------------------------------------------------ sequences
Min(a, b) == IF a <= b THEN a ELSE b

Range(s) == {s[k] : k \in DOMAIN s}

Last(s) == s[Len(s)]

Reverse(s) == [k \in 1..Len(s) |-> s[Len(s) + 1 - k]]

NoDuplicates(s) == \A a, b \in DOMAIN s : a # b => s[a] # s[b]

RECURSIVE SortAsc(_)
SortAsc(S) ==
  IF S = {} THEN <<>>
  ELSE LET m == CHOOSE x \in S : \A y \in S : x <= y
       IN <<m>> \o SortAsc(S \ {m})

\* Array.prototype.sort with a numeric comparator: a stable sort by key,
\* ascending. Insert(s, x) puts x after every element whose key is <= key(x).
\* key is a function from the elements of s to numbers.
RECURSIVE StableSortBy(_, _)
StableSortBy(s, key) ==
  IF Len(s) <= 1 THEN s
  ELSE LET x == Last(s)
           front == StableSortBy(SubSeq(s, 1, Len(s) - 1), key)
           le == {k \in DOMAIN front : \A j \in 1..k : key[front[j]] <= key[x]}
           n == Cardinality(le)
       IN SubSeq(front, 1, n) \o <<x>> \o SubSeq(front, n + 1, Len(front))

\* ------------------------------------------------------------ the store
\* The users in the order the store returns their rows of one item.
UserOrder == <<"u1", "u2">>

\* item.user_items: the rows of item i, each with its owner (user_id).
user_items(i) ==
  LET owners == SelectSeq(UserOrder, LAMBDA u : user_item[u, i] # <<>>)
  IN [k \in DOMAIN owners |->
        [user_id |-> owners[k], row |-> user_item[owners[k], i][1]]]

\* item.feed.users with where: { user_id }: the user's subscription rows of
\* the item's feed (at most one per user and feed).
feed_users_of(u, i) ==
  IF feed_users[u, item[i].feed_id] = <<>> THEN <<>>
  ELSE <<[pagination_start_timestamp |-> feed_users[u, item[i].feed_id][1]]>>

thirtyDaysAgo == Now - ThirtyDays

\* feed: { items: { every: { created_at: { gte: thirtyDaysAgo } } } }
FeedItemsEveryRecent(i) ==
  \A j \in DOMAIN item :
    item[j].feed_id = item[i].feed_id => item[j].created_at >= thirtyDaysAgo

\* feed: { users: { some: { user_id } } }
FeedUsersSome(u, i) == feed_users[u, item[i].feed_id] # <<>>

\* user_items: { none: { AND: [{ marked_read: true }, { user_id }] } }
UserItemsNoneRead(u, i) ==
  ~ \E k \in DOMAIN user_items(i) :
      user_items(i)[k].row.marked_read /\ user_items(i)[k].user_id = u

\* user_items: { every: { user_id } }
UserItemsEveryMine(u, i) ==
  \A k \in DOMAIN user_items(i) : user_items(i)[k].user_id = u

\* WhereBookmarks without every: { user_id }.
WhereBookmarks_AnyOwner(u) ==
  {i \in DOMAIN item :
     \E k \in DOMAIN user_items(i) :
       \/ user_items(i)[k].row.in_read_later
       \/ u \in user_items(i)[k].row.bookmark_folders}

\* where of type == "bookmarks"
WhereBookmarks(u) ==
  {i \in DOMAIN item :
     /\ \E k \in DOMAIN user_items(i) :
          \/ user_items(i)[k].row.in_read_later
          \/ u \in user_items(i)[k].row.bookmark_folders
     /\ UserItemsEveryMine(u, i)}

\* where of type == "recentlyread"
WhereRecentlyRead(u) ==
  {i \in DOMAIN item :
     /\ \E k \in DOMAIN user_items(i) :
          /\ user_items(i)[k].row.marked_read
          /\ user_items(i)[k].row.marked_read_time # <<>>
          /\ user_items(i)[k].row.marked_read_time[1] >= thirtyDaysAgo
     /\ UserItemsEveryMine(u, i)}

\* where of type == "discover"; an undefined feed_id is no condition.
WhereDiscover(u, feed_id) ==
  {i \in DOMAIN item :
     /\ feed_id # <<>> => item[i].feed_id = feed_id[1]
     /\ FeedItemsEveryRecent(i)
     /\ UserItemsNoneRead(u, i)}

\* where of type == "all"
WhereAll(u) ==
  {i \in DOMAIN item :
     /\ FeedUsersSome(u, i)
     /\ FeedItemsEveryRecent(i)
     /\ UserItemsNoneRead(u, i)}

\* where of type == "one": feed_id: input.feed_id
WhereOne(u, feed_id) ==
  {i \in WhereAll(u) : feed_id # <<>> => item[i].feed_id = feed_id[1]}

\* where of type == "multiple": feed_id: { in: <resolved feed ids> }
WhereMultiple(u, feedIds) ==
  {i \in WhereAll(u) : item[i].feed_id \in feedIds}

\* where of type == "newsletters"
WhereNewsletters == {i \in DOMAIN item : item[i].from_newsletter}

\* ------------------------------------------------------- the query shape
\* sharedQuery.orderBy without the test of input.type.
OrderBy_SortOnly(type, sort) ==
  IF sort = "Latest" THEN "desc"
  ELSE IF sort = "Oldest" THEN "asc"
  ELSE "none"

\* sharedQuery.orderBy: "none" is orderBy: undefined.
OrderBy(type, sort) ==
  IF type # "recentlyread"
  THEN IF sort = "Latest" THEN "desc"
       ELSE IF sort = "Oldest" THEN "asc"
       ELSE "none"
  ELSE "desc"

\* sharedQuery.skip as it would be without the skip past the cursor's row.
Skip_Never(cursor) == 0

\* sharedQuery.skip
Skip(cursor) == IF cursor = <<>> THEN 0 ELSE 1

\* sharedQuery.include.user_items is defined for these types only
IncludesUserItems(type) == type \in {"recentlyread", "bookmarks", "newsletters"}

\* findMany as it would be with take left out of sharedQuery.
findMany_WithoutTake(W, take, skip, cursor, orderBy, dbOrder) ==
  LET ord == IF orderBy = "none" THEN dbOrder ELSE orderBy
      from == IF cursor = <<>> THEN W
              ELSE IF cursor[1] \notin DOMAIN item THEN {}
              ELSE {i \in W : IF ord = "asc" THEN i >= cursor[1] ELSE i <= cursor[1]}
      rows == IF ord = "asc" THEN SortAsc(from) ELSE Reverse(SortAsc(from))
  IN SubSeq(rows, skip + 1, Len(rows))

\* prisma.item.findMany({ where, take, skip, cursor, orderBy }) over the rows W
\* that satisfy where. With a cursor the query starts at the cursor's row in
\* the ordering, whether or not that row satisfies where, and skip then drops
\* the first `skip` rows of what is left that do satisfy it; a cursor that
\* names no row of the table yields no rows. With orderBy undefined the
\* order is the store's (dbOrder).
findMany(W, take, skip, cursor, orderBy, dbOrder) ==
  LET ord == IF orderBy = "none" THEN dbOrder ELSE orderBy
      from == IF cursor = <<>> THEN W
              ELSE IF cursor[1] \notin DOMAIN item THEN {}
              ELSE {i \in W : IF ord = "asc" THEN i >= cursor[1] ELSE i <= cursor[1]}
      rows == IF ord = "asc" THEN SortAsc(from) ELSE Reverse(SortAsc(from))
  IN SubSeq(rows, skip + 1, Min(Len(rows), skip + take))

\* itemsAfterDate as it is in "one" and "multiple", where the filter is
\* commented out.
itemsAfterDate_Unfiltered(u, items) == items

\* items.filter(feed_added <= item_added) of type == "all"; an undefined
\* feed_added compares false.
itemsAfterDate(u, items) ==
  SelectSeq(items,
    LAMBDA i : /\ feed_users_of(u, i) # <<>>
               /\ feed_users_of(u, i)[1].pagination_start_timestamp <= item[i].created_at)

\* Number(objX.user_items[0]?.marked_read_time); Number(null) is 0.
NumberOfReadTime(i) ==
  IF user_items(i) = <<>> \/ user_items(i)[1].row.marked_read_time = <<>> THEN 0
  ELSE user_items(i)[1].row.marked_read_time[1]

\* sortRecentlyRead with the two comparators exchanged.
sortRecentlyRead_Exchanged(items, sort) ==
  IF sort = "Latest"
  THEN StableSortBy(items, [i \in Range(items) |-> NumberOfReadTime(i)])
  ELSE IF sort = "Oldest"
  THEN StableSortBy(items, [i \in Range(items) |-> 0 - NumberOfReadTime(i)])
  ELSE items

\* the two items.sort(...) of type == "recentlyread"
sortRecentlyRead(items, sort) ==
  IF sort = "Latest"
  THEN StableSortBy(items, [i \in Range(items) |-> 0 - NumberOfReadTime(i)])
  ELSE IF sort = "Oldest"
  THEN StableSortBy(items, [i \in Range(items) |-> NumberOfReadTime(i)])
  ELSE items

\* transformItems: the joined record flattened; the per-user relation is read
\* as its first element, and its absence gives the defaults.
transformItem(i, withUserItems) ==
  LET has == withUserItems /\ user_items(i) # <<>>
  IN [id |-> i,
      feed_id |-> item[i].feed_id,
      created_at |-> item[i].created_at,
      marked_read |-> IF has THEN user_items(i)[1].row.marked_read ELSE FALSE,
      in_read_later |-> IF has THEN user_items(i)[1].row.in_read_later ELSE FALSE,
      marked_read_time |-> IF has THEN user_items(i)[1].row.marked_read_time ELSE <<>>]

transformItems(items, withUserItems) ==
  [k \in DOMAIN items |-> transformItem(items[k], withUserItems)]

\* getNextPrismaCursor(items, amount): the id of the last item of a page of
\* exactly `amount` items, undefined for a shorter page.
getNextPrismaCursor(items, amount) ==
  IF Len(items) = amount THEN <<Last(items).id>> ELSE <<>>

\* removeDuplicates(items, user_id, prisma, flag). The lookup decides which
\* items repeat content surfaced earlier (dups); the earliest member of a
\* group in the page is kept, so the first item always stays. A failed
\* lookup leaves the page as it is.
removeDuplicates(items, lookupOk, dups) ==
  IF ~lookupOk THEN items
  ELSE SelectSeq(items, LAMBDA x : x.id = items[1].id \/ x.id \notin dups)

\* getFolderFeedIds(folder, user_id, prisma): the feed ids of the user's
\* folder; <<>> when the folder cannot be resolved.
getFolderFeedIds(d, u) ==
  IF d = <<>> THEN <<>> ELSE folder[u, d[1]]

\* ------------------------------------------------------- getUnreadItems
Inputs ==
  [amount : Amounts, sort : Sorts, type : Types,
   folder : {<<>>} \cup {<<d>> : d \in Folders},
   feed_id : {<<>>} \cup {<<f>> : f \in Feeds},
   cursor : {<<>>} \cup {<<i>> : i \in ItemIds}]

\* Where with the conditions that are commented out of the "newsletters"
\* where clause (subscribed feed, recent feed, not read by the user) in force.
Where_NewslettersScoped(u, in) ==
  CASE in.type = "bookmarks" -> WhereBookmarks(u)
    [] in.type = "recentlyread" -> WhereRecentlyRead(u)
    [] in.type = "discover" -> WhereDiscover(u, in.feed_id)
    [] in.type = "all" -> WhereAll(u)
    [] in.type = "one" -> WhereOne(u, in.feed_id)
    [] in.type = "multiple" ->
         IF getFolderFeedIds(in.folder, u) = <<>> THEN {}
         ELSE WhereMultiple(u, getFolderFeedIds(in.folder, u)[1])
    [] in.type = "newsletters" -> {i \in WhereAll(u) : item[i].from_newsletter}

\* The rows that satisfy the where clause of the branch input.type selects.
Where(u, in) ==
  CASE in.type = "bookmarks" -> WhereBookmarks(u)
    [] in.type = "recentlyread" -> WhereRecentlyRead(u)
    [] in.type = "discover" -> WhereDiscover(u, in.feed_id)
    [] in.type = "all" -> WhereAll(u)
    [] in.type = "one" -> WhereOne(u, in.feed_id)
    [] in.type = "multiple" ->
         IF getFolderFeedIds(in.folder, u) = <<>> THEN {}
         ELSE WhereMultiple(u, getFolderFeedIds(in.folder, u)[1])
    [] in.type = "newsletters" -> WhereNewsletters

\* const items = await ctx.prisma.item.findMany({ where, ...sharedQuery })
fetchItems(u, in, dbOrder) ==
  findMany(Where(u, in), in.amount, Skip(in.cursor), in.cursor,
           OrderBy(in.type, in.sort), dbOrder)

\* The page handed to transformItems: filtered in "all", re-sorted in
\* "recentlyread", as fetched elsewhere.
pageOf(u, in, items) ==
  CASE in.type = "all" -> itemsAfterDate(u, items)
    [] in.type = "recentlyread" -> sortRecentlyRead(items, in.sort)
    [] OTHER -> items

\* The branches that call removeDuplicates.
Deduplicates(type) == type \in {"recentlyread", "discover", "all", "one", "multiple"}

\* What the handler answers when it throws.
Rejected(lookup) ==
  [status |-> "error", items |-> <<>>, transformedItems |-> <<>>,
   nextCursor |-> <<>>, lookup |-> lookup]

\* The branch of input.type past its findMany: the page is filtered or
\* re-sorted, projected, the cursor taken, duplicates removed.
respond(u, in, items, lookupOk, dups) ==
  LET transformed == transformItems(pageOf(u, in, items), IncludesUserItems(in.type))
      nextCursor == getNextPrismaCursor(transformed, in.amount)
  IN [status |-> "ok",
      items |-> items,
      transformedItems |->
        IF Deduplicates(in.type) THEN removeDuplicates(transformed, lookupOk, dups)
        ELSE transformed,
      nextCursor |-> nextCursor,
      lookup |-> IF ~Deduplicates(in.type) THEN "none"
                 ELSE IF lookupOk THEN "ok" ELSE "failed"]

\* getUnreadItems with a failed duplicate lookup thrown out of the handler.
getUnreadItems_LookupThrows(u, in, dbOrder, lookupOk, dups) ==
  IF in.type = "multiple" /\ getFolderFeedIds(in.folder, u) = <<>>
  THEN Rejected("none")
  ELSE IF Deduplicates(in.type) /\ ~lookupOk
  THEN Rejected("failed")
  ELSE respond(u, in, fetchItems(u, in, dbOrder), lookupOk, dups)

\* The response of getUnreadItems for user u and input in. dbOrder is the
\* store's order for an unordered query, lookupOk and dups the outcome of the
\* duplicate lookup. An unresolved folder is thrown by the resolver.
getUnreadItems(u, in, dbOrder, lookupOk, dups) ==
  IF in.type = "multiple" /\ getFolderFeedIds(in.folder, u) = <<>>
  THEN Rejected("none")
  ELSE respond(u, in, fetchItems(u, in, dbOrder), lookupOk, dups)

\* ------------------------------------------------------------ requests
Ids(items) == [k \in DOMAIN items |-> items[k].id]

\* The inputs a client sends: feed_id only with the views that read it,
\* folder only with "multiple". The four sorts past "Oldest" take the same
\* branch of orderBy; one of them stands for all.
Requests ==
  {in \in Inputs :
     /\ in.sort \in {"Latest", "Oldest", "Readability Ascending"}
     /\ in.feed_id # <<>> => in.type \in {"one", "discover"}
     /\ in.folder # <<>> => in.type = "multiple"}

\* The orders an unordered query may come back in.
DbOrders(in) ==
  IF OrderBy(in.type, in.sort) = "none" THEN {"asc", "desc"} ELSE {"asc"}

\* One run of the handler: the outcome of the duplicate lookup and the
\* store's order are the environment's choice.
Handle(u, in) ==
  \E dbOrder \in DbOrders(in) :
  \E lookupOk \in IF Deduplicates(in.type) THEN BOOLEAN ELSE {TRUE} :
    LET plain == getUnreadItems(u, in, dbOrder, FALSE, {})
        later == IF Len(plain.transformedItems) <= 1 THEN {}
                 ELSE Range(Ids(Tail(plain.transformedItems)))
    IN \E dups \in IF lookupOk /\ Deduplicates(in.type) THEN SUBSET later ELSE {{}} :
         LET out == getUnreadItems(u, in, dbOrder, lookupOk, dups)
             first == in.cursor = <<>>
         IN /\ resp' = out
            /\ req' = <<[user |-> u, input |-> in]>>
            /\ session' =
                 [n |-> IF first THEN 1 ELSE session.n + 1,
                  visited |-> (IF first THEN <<>> ELSE session.visited)
                                \o Ids(out.transformedItems),
                  suppressed |-> (IF first THEN {} ELSE session.suppressed)
                                   \cup (Range(Ids(plain.transformedItems))
                                           \ Range(Ids(out.transformedItems)))]
            /\ changed' = FALSE
            /\ UNCHANGED <<item, user_item, feed_users, folder, written, searchVars, handlerVars>>

\* A client asks for the first page of a view. The handler keeps nothing
\* between requests, so one pagination per behaviour shows every response.
GetFirstPage ==
  /\ req = <<>>
  /\ \E u \in Users : \E in \in Requests :
       /\ in.cursor = <<>>
       /\ Handle(u, in)

\* The inputs of any sort and cursor, feed_id and folder as in Requests.
AnyRequests ==
  {in \in Inputs :
     /\ in.feed_id # <<>> => in.type \in {"one", "discover"}
     /\ in.folder # <<>> => in.type = "multiple"}

\* A client asks for one page of a view, under any of the six sorts and from
\* any cursor.
GetPage ==
  /\ req = <<>>
  /\ \E u \in Users : \E in \in AnyRequests : Handle(u, in)

\* The client asks for the next page: the same request with the cursor the
\* last response gave.
GetNextPage ==
  /\ req # <<>>
  /\ resp.status = "ok"
  /\ resp.nextCursor # <<>>
  /\ session.n < MaxPages
  /\ Handle(req[1].user, [req[1].input EXCEPT !.cursor = resp.nextCursor])

\* ------------------------------------------------------------ search
\* Text is a sequence of characters; "<b>" and "</b>" are markup.
\* String.prototype.toLowerCase of one character.
Lower(c) == IF c = "A" THEN "a" ELSE IF c = "B" THEN "b" ELSE c

ToLower(t) == [k \in DOMAIN t |-> Lower(t[k])]

\* q occurs in t as a substring.
Contains(t, q) ==
  \E k \in 0..(Len(t) - Len(q)) : SubSeq(t, k + 1, k + Len(q)) = q

\* { contains: query, mode: "insensitive" } on a column value: an undefined
\* query is no condition, a null value matches no query.
ContainsInsensitive(value, query) ==
  \/ query = <<>>
  \/ value # <<>> /\ Contains(ToLower(value[1]), ToLower(query[1]))

\* website_content of the where clause with the plan test left out.
WebsiteContentFilter_EveryPlan(plan, query, value) ==
  ContainsInsensitive(value, query)

\* website_content: input.plan == "free" ? undefined : { contains, mode }
WebsiteContentFilter(plan, query, value) ==
  IF plan = "free" THEN TRUE ELSE ContainsInsensitive(value, query)

\* where of searchMultipleItems over the column values content.
WhereSearch(u, in, content) ==
  {i \in DOMAIN item :
     /\ ContainsInsensitive(<<title[i]>>, in.query)
     /\ WebsiteContentFilter(in.plan, in.query, content[i])
     /\ FeedUsersSome(u, i)}

\* where of searchMultipleItemsWithFormatting
WhereSearchWithFormatting(u, in) ==
  {i \in DOMAIN item :
     /\ ContainsInsensitive(<<title[i]>>, in.query)
     /\ FeedUsersSome(u, i)}

\* NodeHtmlMarkdown.translate: bold markup becomes "**", text stays.
translate(t) == [k \in DOMAIN t |-> IF t[k] \in {"<b>", "</b>"} THEN "**" ELSE t[k]]

\* feed: { select: { title: true } }: the feeds are titled by their ids.
feed_title(i) == item[i].feed_id

\* searchMultipleItems: findMany with take and no orderBy, then the loop
\* that converts website_content ?? "" and adds feed_title.
searchMultipleItems(u, in, dbOrder, content) ==
  LET searchItems == findMany(WhereSearch(u, in, content), in.take, 0, <<>>, "none", dbOrder)
  IN [k \in DOMAIN searchItems |->
        LET i == searchItems[k]
        IN [id |-> i, title |-> title[i],
            website_content |-> translate(IF content[i] = <<>> THEN <<>> ELSE content[i][1]),
            feed_title |-> feed_title(i)]]

\* searchMultipleItemsWithFormatting: the rows with feed_title flattened in.
searchMultipleItemsWithFormatting(u, in, dbOrder) ==
  LET searchItems == findMany(WhereSearchWithFormatting(u, in), in.take, 0, <<>>, "none", dbOrder)
  IN [k \in DOMAIN searchItems |->
        LET i == searchItems[k]
        IN [id |-> i, title |-> title[i], website_content |-> website_content[i],
            feed_title |-> feed_title(i)]]

\* query: z.union([z.string(), z.undefined()]): absent, empty, one
\* character, and two characters in the other case.
Queries == {<<>>, << <<>> >>, << <<"a">> >>, << <<"A", "B">> >>}

Plans == {"free", "pro"}

SearchInputs == [query : Queries, plan : Plans, take : Amounts]

SearchWithFormattingInputs == [query : Queries, take : Amounts]

\* The handlers keep nothing between calls: one search per behaviour shows
\* every result.
SearchMultipleItems ==
  /\ search = <<>>
  /\ \E u \in Users : \E in \in SearchInputs : \E dbOrder \in {"asc", "desc"} :
       search' = <<[procedure |-> "searchMultipleItems", user |-> u, input |-> in,
                    dbOrder |-> dbOrder,
                    result |-> searchMultipleItems(u, in, dbOrder, website_content)]>>
  /\ UNCHANGED <<item, user_item, feed_users, folder, req, resp, session, written,
                 changed, title, website_content, handlerVars>>

SearchMultipleItemsWithFormatting ==
  /\ search = <<>>
  /\ \E u \in Users : \E in \in SearchWithFormattingInputs : \E dbOrder \in {"asc", "desc"} :
       search' = <<[procedure |-> "searchMultipleItemsWithFormatting", user |-> u,
                    input |-> in, dbOrder |-> dbOrder,
                    result |-> searchMultipleItemsWithFormatting(u, in, dbOrder)]>>
  /\ UNCHANGED <<item, user_item, feed_users, folder, req, resp, session, written,
                 changed, title, website_content, handlerVars>>

\* ------------------------------------------- concurrent invocations
\* Two invocations of the query callback run at once; an invocation yields
\* at each await.
Slots == {1, 2}

Idle ==
  [status |-> "idle", items |-> <<>>, transformedItems |-> <<>>,
   nextCursor |-> <<>>, lookup |-> "none"]

\* The locals of an invocation that has not begun.
NoFrame ==
  [call |-> <<>>, sharedQuery |-> <<>>, items |-> <<>>, dbOrder |-> "asc",
   lookupOk |-> TRUE, dups |-> {}, out |-> Idle]

\* const sharedQuery = { take, skip, cursor, orderBy, include }
BuildSharedQuery(in) ==
  [take |-> in.amount, skip |-> Skip(in.cursor), cursor |-> in.cursor,
   orderBy |-> OrderBy(in.type, in.sort)]

\* ...sharedQuery as it would be read were the object kept in one place for
\* all invocations: the query of the highest slot that has built one.
QueryOf_Shared(r) ==
  LET built == {q \in Slots : frame[q].sharedQuery # <<>>}
  IN frame[CHOOSE q \in built : \A p \in built : q >= p].sharedQuery[1]

\* ...sharedQuery in a findMany of invocation r: the invocation's own const.
QueryOf(r) == frame[r].sharedQuery[1]

\* The calls that arrive at each slot: at the first any view of either user,
\* first page or continued past the last item; at the second a first page
\* of another size under "Oldest".
Calls(r) ==
  IF r = 1
  THEN {c \in [user : Users, input : Requests] :
          /\ c.input.amount = MaxAmount
          /\ c.input.cursor \in {<<>>, <<MaxItems>>}}
  ELSE {c \in [user : Users, input : Requests] :
          /\ c.input.amount = MaxAmount - 1
          /\ c.input.sort = "Oldest"
          /\ c.input.cursor = <<>>
          /\ c.input.type \in {"all", "recentlyread", "newsletters"}}

\* The callback is entered: thirtyDaysAgo and sharedQuery are built.
Begin(r) ==
  /\ pc[r] = "idle"
  /\ \E c \in Calls(r) :
       frame' = [frame EXCEPT ![r] =
                   [NoFrame EXCEPT !.call = <<c>>,
                                   !.sharedQuery = <<BuildSharedQuery(c.input)>>]]
  /\ pc' = [pc EXCEPT ![r] = "built"]
  /\ UNCHANGED <<item, user_item, feed_users, folder, req, resp, session, written,
                 changed, searchVars>>

\* await getFolderFeedIds (type "multiple") and await findMany.
Fetch(r) ==
  /\ pc[r] = "built"
  /\ LET u == frame[r].call[1].user
         in == frame[r].call[1].input
         q == QueryOf(r)
     IN IF in.type = "multiple" /\ getFolderFeedIds(in.folder, u) = <<>>
        THEN /\ frame' = [frame EXCEPT ![r].out = Rejected("none")]
             /\ pc' = [pc EXCEPT ![r] = "done"]
        ELSE /\ \E dbOrder \in DbOrders(in) :
                  frame' = [frame EXCEPT
                    ![r].dbOrder = dbOrder,
                    ![r].items = findMany(Where(u, in), q.take, q.skip, q.cursor,
                                          q.orderBy, dbOrder)]
             /\ pc' = [pc EXCEPT ![r] = "fetched"]
  /\ UNCHANGED <<item, user_item, feed_users, folder, req, resp, session, written,
                 changed, searchVars>>

\* The rest of the branch: filter or sort, projection, cursor, suppression,
\* return.
Finish(r) ==
  /\ pc[r] = "fetched"
  /\ LET u == frame[r].call[1].user
         in == frame[r].call[1].input
         plain == respond(u, in, frame[r].items, FALSE, {})
         later == IF Len(plain.transformedItems) <= 1 THEN {}
                  ELSE Range(Ids(Tail(plain.transformedItems)))
     IN \E lookupOk \in IF Deduplicates(in.type) THEN BOOLEAN ELSE {TRUE} :
        \E dups \in IF lookupOk /\ Deduplicates(in.type) THEN SUBSET later ELSE {{}} :
          frame' = [frame EXCEPT
            ![r].lookupOk = lookupOk,
            ![r].dups = dups,
            ![r].out = respond(u, in, frame[r].items, lookupOk, dups)]
  /\ pc' = [pc EXCEPT ![r] = "done"]
  /\ UNCHANGED <<item, user_item, feed_users, folder, req, resp, session, written,
                 changed, searchVars>>

BeginRequest == \E r \in Slots : Begin(r)

FetchItems == \E r \in Slots : Fetch(r)

FinishRequest == \E r \in Slots : Finish(r)

\* ------------------------------------------------------------ the store's rows
NoRow == <<>>

Row(read, time, later, links) ==
  <<[marked_read |-> read, marked_read_time |-> time, in_read_later |-> later,
     bookmark_folders |-> links]>>

\* Writes of the other procedures, between two page requests (one per
\* pagination), on the item the cursor names. The user marks it read:
\* marked_read and marked_read_time are set on the user's row, made if absent.
MarkItemRead ==
  /\ resp.status = "ok" /\ resp.nextCursor # <<>> /\ ~written
  /\ LET u == req[1].user
         i == resp.nextCursor[1]
         old == user_item[u, i]
     IN user_item' =
          [user_item EXCEPT ![u, i] =
             IF old = NoRow THEN Row(TRUE, <<Now>>, FALSE, {})
             ELSE <<[old[1] EXCEPT !.marked_read = TRUE,
                                   !.marked_read_time = <<Now>>]>>]
  /\ written' = TRUE /\ changed' = TRUE
  /\ UNCHANGED <<item, feed_users, folder, req, resp, session, searchVars, handlerVars>>

\* Ingestion deletes it; its per-user rows go with it.
DeleteItem ==
  /\ resp.status = "ok" /\ resp.nextCursor # <<>> /\ ~written
  /\ LET i == resp.nextCursor[1]
     IN /\ item' = [j \in DOMAIN item \ {i} |-> item[j]]
        /\ user_item' = [p \in Users \X ItemIds |->
                           IF p[2] = i THEN NoRow ELSE user_item[p]]
  /\ written' = TRUE /\ changed' = TRUE
  /\ UNCHANGED <<feed_users, folder, req, resp, session, searchVars, handlerVars>>

\* What one item and its per-user rows can look like. u1 has subscribed to
\* f1 only and has read what it holds; u2 has subscribed to both feeds, to f1
\* a day after the 30-day boundary.
Profiles ==
  { \* read by u1 a day ago and in a bookmark folder of u1
    [feed_id |-> "f1", created_at |-> thirtyDaysAgo + 1, from_newsletter |-> TRUE,
     u1 |-> Row(TRUE, <<thirtyDaysAgo + 1>>, FALSE, {"u1"}), u2 |-> NoRow],
    \* created before u2 subscribed; read by u1 on the boundary day, saved for later
    [feed_id |-> "f1", created_at |-> thirtyDaysAgo, from_newsletter |-> FALSE,
     u1 |-> Row(TRUE, <<thirtyDaysAgo>>, TRUE, {}), u2 |-> NoRow],
    \* marked unread again by u1, who kept nothing of it
    [feed_id |-> "f2", created_at |-> thirtyDaysAgo + 1, from_newsletter |-> TRUE,
     u1 |-> Row(FALSE, <<thirtyDaysAgo + 1>>, FALSE, {}), u2 |-> NoRow],
    \* older than 30 days; read then by u2, saved and in a bookmark folder of u2
    [feed_id |-> "f2", created_at |-> thirtyDaysAgo - 1, from_newsletter |-> FALSE,
     u1 |-> NoRow, u2 |-> Row(TRUE, <<thirtyDaysAgo - 1>>, TRUE, {"u2"})] }

Subscriptions ==
  [p \in Users \X Feeds |->
     IF p = <<"u1", "f1">> THEN <<thirtyDaysAgo>>
     ELSE IF p = <<"u1", "f2">> THEN <<>>
     ELSE IF p = <<"u2", "f1">> THEN <<thirtyDaysAgo + 1>>
     ELSE <<thirtyDaysAgo>>]

\* u2 keeps f1 in the folder d1; u1 has no folder of that name.
FolderFeeds ==
  [p \in Users \X Folders |-> IF p[1] = "u2" THEN <<{"f1"}>> ELSE <<>>]

Init ==
  /\ \E prof \in [ItemIds -> Profiles] :
       /\ item = [i \in ItemIds |->
                    [feed_id |-> prof[i].feed_id, created_at |-> prof[i].created_at,
                     from_newsletter |-> prof[i].from_newsletter]]
       /\ user_item = [p \in Users \X ItemIds |->
                         IF p[1] = "u1" THEN prof[p[2]].u1 ELSE prof[p[2]].u2]
  /\ feed_users = Subscriptions
  /\ folder = FolderFeeds
  /\ req = <<>>
  /\ resp = [status |-> "idle", items |-> <<>>, transformedItems |-> <<>>,
             nextCursor |-> <<>>, lookup |-> "none"]
  /\ session = [n |-> 0, visited |-> <<>>, suppressed |-> {}]
  /\ written = FALSE
  /\ changed = FALSE
  /\ title = [i \in ItemIds |-> <<"a">>]
  /\ website_content = [i \in ItemIds |-> <<>>]
  /\ search = <<>>
  /\ pc = [r \in Slots |-> "idle"]
  /\ frame = [r \in Slots |-> NoFrame]

\* Paginations over a store nobody writes to.
Next == GetFirstPage \/ GetNextPage

Spec == Init /\ [][Next]_vars

\* Paginations with one write between two page requests.
NextStale == GetFirstPage \/ GetNextPage \/ MarkItemRead \/ DeleteItem

SpecStale == Init /\ [][NextStale]_vars

\* What the text of one item can look like, with the feed that holds it.
SearchProfiles ==
  { [feed_id |-> "f1", title |-> <<"A", "b">>, website_content |-> << <<"<b>", "a", "</b>">> >>],
    [feed_id |-> "f1", title |-> <<"b">>, website_content |-> << <<"a">> >>],
    [feed_id |-> "f1", title |-> <<"a">>, website_content |-> << <<"b">> >>],
    [feed_id |-> "f2", title |-> <<"A">>, website_content |-> <<>>],
    [feed_id |-> "f2", title |-> <<"B">>, website_content |-> << <<"b">> >>] }

\* Stores for searching: recent items nobody has touched, with their text.
InitSearch ==
  /\ \E prof \in [ItemIds -> SearchProfiles] :
       /\ item = [i \in ItemIds |->
                    [feed_id |-> prof[i].feed_id, created_at |-> thirtyDaysAgo + 1,
                     from_newsletter |-> FALSE]]
       /\ title = [i \in ItemIds |-> prof[i].title]
       /\ website_content = [i \in ItemIds |-> prof[i].website_content]
  /\ user_item = [p \in Users \X ItemIds |-> NoRow]
  /\ feed_users = Subscriptions
  /\ folder = FolderFeeds
  /\ req = <<>>
  /\ resp = [status |-> "idle", items |-> <<>>, transformedItems |-> <<>>,
             nextCursor |-> <<>>, lookup |-> "none"]
  /\ session = [n |-> 0, visited |-> <<>>, suppressed |-> {}]
  /\ written = FALSE
  /\ changed = FALSE
  /\ search = <<>>
  /\ pc = [r \in Slots |-> "idle"]
  /\ frame = [r \in Slots |-> NoFrame]

NextSearch == SearchMultipleItems \/ SearchMultipleItemsWithFormatting

SpecSearch == InitSearch /\ [][NextSearch]_vars

\* Stores for the concurrent invocations: the items of odd id in f1, those
\* of even id in f2.
ConcurrentStores ==
  {prof \in [ItemIds -> Profiles] :
     \A i \in ItemIds :
       /\ prof[i].feed_id = (IF i % 2 = 1 THEN "f1" ELSE "f2")
       /\ i % 2 = 0 => prof[i].from_newsletter}

InitConcurrent ==
  /\ \E prof \in ConcurrentStores :
       /\ item = [i \in ItemIds |->
                    [feed_id |-> prof[i].feed_id, created_at |-> prof[i].created_at,
                     from_newsletter |-> prof[i].from_newsletter]]
       /\ user_item = [p \in Users \X ItemIds |->
                         IF p[1] = "u1" THEN prof[p[2]].u1 ELSE prof[p[2]].u2]
  /\ feed_users = Subscriptions
  /\ folder = FolderFeeds
  /\ req = <<>>
  /\ resp = Idle
  /\ session = [n |-> 0, visited |-> <<>>, suppressed |-> {}]
  /\ written = FALSE
  /\ changed = FALSE
  /\ title = [i \in ItemIds |-> <<"a">>]
  /\ website_content = [i \in ItemIds |-> <<>>]
  /\ search = <<>>
  /\ pc = [r \in Slots |-> "idle"]
  /\ frame = [r \in Slots |-> NoFrame]

NextConcurrent == BeginRequest \/ FetchItems \/ FinishRequest

SpecConcurrent == InitConcurrent /\ [][NextConcurrent]_vars

\* What GetNextPage does to req: the client sends the request again with the
\* cursor of the last response.
AskAgain ==
  /\ req # <<>>
  /\ resp.status = "ok"
  /\ resp.nextCursor # <<>>
  /\ session.n < MaxPages
  /\ req' = <<[req[1] EXCEPT !.input.cursor = resp.nextCursor]>>

\* Paginations by a client that goes on asking while there is a nextCursor:
\* the steps that change req as AskAgain does are the steps of GetNextPage.
SpecLive == Spec /\ WF_req(AskAgain)

\* Single pages under every sort, over the stores of InitConcurrent.
NextSorts == GetPage

SpecSorts == InitConcurrent /\ [][NextSorts]_vars

\* ------------------------------------------------------------ the claims
\* The last request, once there is one, answered from the store as it is now.
Answered == req # <<>> /\ resp.status # "idle" /\ ~changed

User == req[1].user
Input == req[1].input

Returned == Range(Ids(resp.transformedItems))

\* The user's own row of item i, <<>> if there is none.
MyRow(u, i) == user_item[u, i]

\* The items the view of the request is meant to show: the rows of its where
\* clause, and in "all" those not older than the user's subscription.
Qualifying(u, in) ==
  IF in.type = "all" THEN Range(itemsAfterDate(u, SortAsc(Where(u, in))))
  ELSE Where(u, in)

\* C1: on an unchanging store, following nextCursor from the first page until
\* it is absent returns no item twice and leaves out no item of the view (an
\* item taken out by duplicate suppression counts as visited).
C1_PaginationVisitsEachOnce ==
  (Answered /\ ~written /\ resp.status = "ok" /\ resp.nextCursor = <<>>)
    => /\ NoDuplicates(session.visited)
       /\ Qualifying(User, Input) \subseteq Range(session.visited) \cup session.suppressed

\* C2: nextCursor is present exactly when the fetched page has `amount`
\* items, and is then the id of the last item of the page as fetched.
C2_CursorIsLastFetched ==
  (Answered /\ resp.status = "ok")
    => /\ resp.nextCursor # <<>> <=> Len(resp.items) = Input.amount
       /\ resp.nextCursor # <<>> => resp.nextCursor = <<Last(resp.items)>>

\* The page a paginator that loses nothing returns after the cursor: the
\* first `amount` rows of the view strictly past the cursor's id.
Continuation(u, in, ord) ==
  LET past == {i \in Where(u, in) :
                 IF ord = "asc" THEN i > in.cursor[1] ELSE i < in.cursor[1]}
      rows == IF ord = "asc" THEN SortAsc(past) ELSE Reverse(SortAsc(past))
  IN SubSeq(rows, 1, Min(Len(rows), in.amount))

Orders(in) ==
  IF OrderBy(in.type, in.sort) = "none" THEN {"asc", "desc"}
  ELSE {OrderBy(in.type, in.sort)}

\* The cursor of the last request names an item that is not in the view.
StaleCursor ==
  /\ Answered
  /\ Input.cursor # <<>>
  /\ Input.cursor[1] \notin Where(User, Input)

\* C3: a request whose cursor names an item that has left the view fails,
\* or returns a fresh first page, or at least goes on without a gap: it
\* never skips an item of the view.
C3_StaleCursorNeverSkips ==
  StaleCursor
    => \/ resp.status = "error"
       \/ \E ord \in Orders(Input) :
            resp.items = fetchItems(User, [Input EXCEPT !.cursor = <<>>], ord)
       \/ \E ord \in Orders(Input) : resp.items = Continuation(User, Input, ord)

\* The request lacks a parameter its view requires.
MissingRequired(in) ==
  \/ in.type \in {"one", "discover"} /\ in.feed_id = <<>>
  \/ in.type = "multiple" /\ in.folder = <<>>

\* C4: a request that lacks feed_id for "one" or "discover", or folder for
\* "multiple", is rejected and returns no items.
C4_MissingParameterRejected ==
  (Answered /\ MissingRequired(Input))
    => resp.status = "error" /\ resp.transformedItems = <<>>

\* C5: in "all", every returned item was created at or after the
\* pagination_start_timestamp of the user's own subscription to its feed.
C5_AllAfterSubscriptionStart ==
  (Answered /\ Input.type = "all")
    => \A i \in Returned :
         /\ feed_users[User, item[i].feed_id] # <<>>
         /\ item[i].created_at >= feed_users[User, item[i].feed_id][1]

\* An "all" page from which the filter took an item and left another.
C5_Witness ==
  /\ Answered /\ Input.type = "all"
  /\ Returned # {}
  /\ \E i \in Range(resp.items) :
       item[i].created_at < feed_users[User, item[i].feed_id][1]

\* Item i has rows of user u only, and u saved it or filed it in a folder.
Bookmarked(u, i) ==
  /\ MyRow(u, i) # <<>>
  /\ MyRow(u, i)[1].in_read_later \/ u \in MyRow(u, i)[1].bookmark_folders
  /\ \A v \in Users \ {u} : user_item[v, i] = <<>>

\* C6: in "bookmarks", every returned item has a row of the user that is
\* saved for later or linked to a bookmark folder of the user, and no row of
\* another user; an item not saved for later but linked to a folder is
\* included (it is on the page whenever the whole view fits on one page).
C6_BookmarksOwnSavedOrLinked ==
  (Answered /\ Input.type = "bookmarks")
    => /\ \A i \in Returned : Bookmarked(User, i)
       /\ (Input.cursor = <<>> /\ resp.nextCursor = <<>>)
            => \A i \in DOMAIN item :
                 (Bookmarked(User, i) /\ ~MyRow(User, i)[1].in_read_later)
                   => i \in Returned

\* A bookmarks page with an item that is linked to a folder but not saved,
\* from a store where another user has saved an item, which is not on it.
C6_Witness ==
  /\ Answered /\ Input.type = "bookmarks"
  /\ \E i \in Returned :
       ~MyRow(User, i)[1].in_read_later /\ User \in MyRow(User, i)[1].bookmark_folders
  /\ \E j \in DOMAIN item \ Returned : \E v \in Users \ {User} :
       user_item[v, j] # <<>> /\ user_item[v, j][1].in_read_later

ReadTime(u, i) == MyRow(u, i)[1].marked_read_time[1]

\* C7: in "recentlyread", every returned item is marked read by the user with
\* a read time in the last 30 days, and the page is ordered by read time:
\* non-increasing under "Latest", non-decreasing under "Oldest".
C7_RecentlyReadInWindowAndOrdered ==
  (Answered /\ Input.type = "recentlyread")
    => /\ \A i \in Returned :
            /\ MyRow(User, i) # <<>>
            /\ MyRow(User, i)[1].marked_read
            /\ MyRow(User, i)[1].marked_read_time # <<>>
            /\ ReadTime(User, i) >= thirtyDaysAgo
            /\ ReadTime(User, i) <= Now
       /\ \A k, l \in DOMAIN resp.transformedItems :
            k < l =>
              LET a == ReadTime(User, resp.transformedItems[k].id)
                  b == ReadTime(User, resp.transformedItems[l].id)
              IN /\ Input.sort = "Latest" => a >= b
                 /\ Input.sort = "Oldest" => a <= b

\* The scenario: fetched [D, E] by id descending, D read after E, sort
\* "Oldest": the page comes back as [E, D].
C7_Witness ==
  /\ Answered /\ Input.type = "recentlyread" /\ Input.sort = "Oldest"
  /\ Len(resp.items) = 2
  /\ Ids(resp.transformedItems) = <<resp.items[2], resp.items[1]>>
  /\ ReadTime(User, resp.items[1]) > ReadTime(User, resp.items[2])

\* C8: in "all", "one" and "multiple", every returned item is of a feed the
\* user has subscribed to and has no row of the user with read = true; in
\* "one" its feed is the requested feed_id, in "multiple" one of the feed ids
\* the requested folder resolves to.
C8_UnreadOfSubscribedFeed ==
  (Answered /\ Input.type \in {"all", "one", "multiple"})
    => \A i \in Returned :
         /\ feed_users[User, item[i].feed_id] # <<>>
         /\ ~(MyRow(User, i) # <<>> /\ MyRow(User, i)[1].marked_read)
         /\ Input.type = "one" => Input.feed_id = <<item[i].feed_id>>
         /\ Input.type = "multiple" =>
              /\ getFolderFeedIds(Input.folder, User) # <<>>
              /\ item[i].feed_id \in getFolderFeedIds(Input.folder, User)[1]

C10_AtMostAmount ==
  Answered => Len(resp.transformedItems) <= Input.amount

\* A full page from a view that holds more than one page.
C10_Witness ==
  /\ Answered
  /\ Len(resp.transformedItems) = Input.amount
  /\ Cardinality(Where(User, Input)) > Input.amount

\* The ids user v gets for input in when the store answers in order ord.
IdsFor(v, in, ord) ==
  Range(Ids(getUnreadItems(v, in, ord, TRUE, {}).transformedItems))

\* C11: in "newsletters", every returned item has from_newsletter set, and
\* the result does not depend on who asks: every user issuing the request
\* against the store gets the same set of item ids, whatever the user's
\* subscriptions and read state.
C11_NewslettersSameForEveryUser ==
  (Answered /\ Input.type = "newsletters")
    => /\ \A i \in Returned : item[i].from_newsletter
       /\ \E ord \in DbOrders(Input) :
            \A v \in Users : IdsFor(v, Input, ord) = Returned

\* A newsletters page holding an item of a feed the user has not subscribed
\* to and an item the user has read, from a store with an item that is not
\* from a newsletter.
C11_Witness ==
  /\ Answered /\ Input.type = "newsletters"
  /\ \E i \in Returned : feed_users[User, item[i].feed_id] = <<>>
  /\ \E i \in Returned : MyRow(User, i) # <<>> /\ MyRow(User, i)[1].marked_read
  /\ \E j \in DOMAIN item : ~item[j].from_newsletter
  /\ \E v \in Users \ {User} : \E i \in Returned : feed_users[v, item[i].feed_id] # <<>>

\* The column values an item's website_content can be changed to.
ContentValues == {p.website_content : p \in SearchProfiles}

\* The ids of a search result.
Found == Range(Ids(search[1].result))

\* C12: searchMultipleItems with plan "free" never matches on content: for
\* every query, the absent and the empty one included, the result is the
\* first `take` of the subscribed items whose title holds the query whatever
\* the case, so changing an item's content never changes the ids returned,
\* and every returned item is of a feed the user has subscribed to.
C12_FreeSearchIgnoresContent ==
  (/\ search # <<>>
   /\ search[1].procedure = "searchMultipleItems"
   /\ search[1].input.plan = "free")
    => LET s == search[1]
           byTitle == {i \in DOMAIN item :
                         /\ ContainsInsensitive(<<title[i]>>, s.input.query)
                         /\ feed_users[s.user, item[i].feed_id] # <<>>}
       IN /\ \A i \in ItemIds : \A c \in ContentValues :
               Ids(searchMultipleItems(s.user, s.input, s.dbOrder,
                                       [website_content EXCEPT ![i] = c]))
                 = Ids(s.result)
          /\ \A i \in Found : feed_users[s.user, item[i].feed_id] # <<>>
          /\ Found \subseteq byTitle
          /\ Cardinality(Found) = Min(s.input.take, Cardinality(byTitle))

\* A free search for a query that returns an item whose content does not
\* hold the query and leaves out a subscribed item whose content holds it.
C12_Witness ==
  /\ search # <<>>
  /\ search[1].procedure = "searchMultipleItems"
  /\ search[1].input.plan = "free"
  /\ search[1].input.query \notin {<<>>, << <<>> >>}
  /\ \E i \in Found : ~ContainsInsensitive(website_content[i], search[1].input.query)
  /\ \E j \in DOMAIN item \ Found :
       /\ feed_users[search[1].user, item[j].feed_id] # <<>>
       /\ ContainsInsensitive(website_content[j], search[1].input.query)
       /\ Cardinality(Found) < search[1].input.take

\* C13: requests are independent: the handler keeps nothing between or
\* across invocations, so however two concurrent invocations interleave,
\* each one's response is the response its request produces when run alone
\* against the store.
C13_ResponseAsIfAlone ==
  \A r \in Slots :
    pc[r] = "done"
      => frame[r].out =
           getUnreadItems(frame[r].call[1].user, frame[r].call[1].input,
                          frame[r].dbOrder, frame[r].lookupOk, frame[r].dups)

\* Both invocations have answered, for different users, with queries that
\* differ in cursor and orderBy, each with a page of its own.
C13_Witness ==
  /\ pc[1] = "done" /\ pc[2] = "done"
  /\ frame[1].call[1].user # frame[2].call[1].user
  /\ frame[1].sharedQuery[1].cursor # <<>>
  /\ frame[1].sharedQuery[1].orderBy # frame[2].sharedQuery[1].orderBy
  /\ frame[1].out.transformedItems # <<>>
  /\ frame[2].out.transformedItems # <<>>
  /\ frame[1].out.transformedItems # frame[2].out.transformedItems

\* The projected page of the last response, before any suppression.
Projected ==
  transformItems(pageOf(User, Input, resp.items), IncludesUserItems(Input.type))

\* C14: duplicate suppression runs on the projected page in every view but
\* "newsletters" (in all, one, multiple, discover, recentlyread and
\* bookmarks), after nextCursor has been taken from the unsuppressed page
\* and before the response is returned.
C14_SuppressionInEveryViewButNewsletters ==
  (Answered /\ resp.status = "ok")
    => /\ Input.type # "newsletters" <=> resp.lookup # "none"
       /\ resp.nextCursor = getNextPrismaCursor(Projected, Input.amount)

Descending(s) == \A k \in 1..(Len(s) - 1) : s[k] > s[k + 1]

Ascending(s) == \A k \in 1..(Len(s) - 1) : s[k] < s[k + 1]

\* C15: the ordering of the store fetch is a function of (type, sort) only:
\* id descending for "recentlyread" under every sort; for every other type
\* id descending under "Latest", id ascending under "Oldest", and no
\* ordering at all under the Readability and Content Length sorts. The
\* fetched rows come in that order.
C15_OrderingByTypeAndSort ==
  (Answered /\ resp.status = "ok")
    => LET ordering == OrderBy(Input.type, Input.sort)
       IN /\ Input.type = "recentlyread"
               => ordering = "desc" /\ Descending(resp.items)
          /\ (Input.type # "recentlyread" /\ Input.sort = "Latest")
               => ordering = "desc" /\ Descending(resp.items)
          /\ (Input.type # "recentlyread" /\ Input.sort = "Oldest")
               => ordering = "asc" /\ Ascending(resp.items)
          /\ (Input.type # "recentlyread" /\ Input.sort \notin {"Latest", "Oldest"})
               => ordering = "none"

\* A recently-read page asked for under "Oldest" and fetched with two rows,
\* the higher id first.
C15_Witness ==
  /\ Answered /\ resp.status = "ok"
  /\ Input.type = "recentlyread" /\ Input.sort = "Oldest"
  /\ Len(resp.items) >= 2
  /\ resp.items[1] > resp.items[2]

\* Id a lies strictly further along the ordering ord than id b.
Further(ord, a, b) == IF ord = "asc" THEN a > b ELSE a < b

\* The last request was made under "Latest" or "Oldest".
Ordered == req # <<>> /\ Input.sort \in {"Latest", "Oldest"}

\* The nextCursor of a continued request lies past the request's cursor.
CursorMovesOn ==
  (Ordered /\ Answered /\ resp.nextCursor # <<>> /\ Input.cursor # <<>>)
    => Further(OrderBy(Input.type, Input.sort), resp.nextCursor[1], Input.cursor[1])

\* C16: pagination terminates: on an unchanging store, under "Latest" or
\* "Oldest", every nextCursor names an item strictly further along the fetch
\* order than the cursor of the request that produced it, and following
\* nextCursor from the first page leads to a response without nextCursor,
\* in "recentlyread" too, where the page is re-sorted before the cursor is
\* taken.
C16_PaginationTerminates ==
  /\ [](CursorMovesOn)
  /\ Ordered ~> (resp.nextCursor = <<>>)

\* A recently-read pagination of two or more requests that has ended after
\* a cursor taken from a re-sorted page made it return an item twice.
C16_Witness ==
  /\ Ordered /\ Answered
  /\ Input.type = "recentlyread"
  /\ session.n >= 2
  /\ resp.nextCursor = <<>>
  /\ ~NoDuplicates(session.visited)

====
